---- MODULE Spec2Model ----
(***************************************************************************)
(* A model of code_analyzer.py: the rule predicates on lines and names,    *)
(* the line scanner file_as_strings_analyzer, the tree scanner             *)
(* file_as_ast_analyzer, the aggregation in static_code_analyzer and the   *)
(* driver main.                                                            *)
(*                                                                         *)
(* A string is a sequence of one-character strings, a line sequence a      *)
(* sequence of strings.  Indices of the string operators are Python's      *)
(* (0-based); the sequences themselves are TLA+'s (1-based).               *)
(***************************************************************************)
EXTENDS Integers, Sequences, FiniteSets, TLC

VARIABLES
    pc,         \* position of the operation under check
    line,       \* the argument of semicolon_check and todo_check
    flags,      \* what the two predicates returned for line
    lines,      \* the argument of file_as_strings_analyzer
    tree,       \* the argument of file_as_ast_analyzer
    file,       \* the file static_code_analyzer is called for
    strErrors,  \* what file_as_strings_analyzer returned
    astErrors,  \* what file_as_ast_analyzer returned
    result,     \* what static_code_analyzer returned
    files,      \* main: the list get_files returned
    next_file,  \* main: position of the for loop over files (1-based)
    errors,     \* main: the list the violations are collected in
    printed     \* main: the lines printed so far

vars == <<pc, line, flags, lines, tree, file, strErrors, astErrors, result,
          files, next_file, errors, printed>>

None == "None"

----------------------------------------------------------------------------
(* Bounds of the model.                                                    *)

MaxSegs == 4      \* segments a checked line is made of
MaxLines == 6     \* lines of a line sequence given to the line scanner
MaxNodes == 3     \* nodes of a syntax tree below its Module node
MaxBlocks == 3    \* top-level blocks of an analysed file
MaxFiles == 2     \* files of one run of main

----------------------------------------------------------------------------
(* Strings.                                                                *)

Whitespace == {" ", "\t", "\n", "\r"}
UpperCase == {"A", "B", "C", "D", "F", "G", "O", "T", "X", "Y"}
LowerCase == {"a", "b", "c", "d", "e", "f", "g", "k", "l", "m", "n", "o",
              "p", "s", "t", "x", "y"}
Digits == {"0", "1", "2"}
\* \w of the regular expressions
WordChars == UpperCase \cup LowerCase \cup Digits \cup {"_"}

\* str.lower on one character
LowerChar(c) ==
    CASE c = "A" -> "a" [] c = "B" -> "b" [] c = "C" -> "c" [] c = "D" -> "d"
      [] c = "F" -> "f" [] c = "G" -> "g" [] c = "O" -> "o" [] c = "T" -> "t"
      [] c = "X" -> "x" [] c = "Y" -> "y" [] OTHER -> c

Lower(s) == [i \in 1..Len(s) |-> LowerChar(s[i])]

\* c in s, for a character c
In(c, s) == \E i \in 1..Len(s) : s[i] = c

\* s.index(c), 0-based; the code calls it only when c is in s
Index(s, c) ==
    (CHOOSE i \in 1..Len(s) : s[i] = c /\ \A j \in 1..(i - 1) : s[j] # c) - 1

\* sub occurs in s at 0-based position p
OccursAt(sub, s, p) ==
    /\ p >= 0
    /\ p + Len(sub) <= Len(s)
    /\ \A k \in 1..Len(sub) : s[p + k] = sub[k]

\* sub in s, for a string sub
Contains(sub, s) == \E p \in 0..Len(s) : OccursAt(sub, s, p)

\* s.index(sub): the position of the first occurrence
Find(s, sub) ==
    CHOOSE p \in 0..Len(s) :
        OccursAt(sub, s, p) /\ \A q \in 0..(p - 1) : ~OccursAt(sub, s, q)

\* s[a:b], for 0 <= a
Slice(s, a, b) == SubSeq(s, a + 1, IF b > Len(s) THEN Len(s) ELSE b)

EndsWith(s, c) == Len(s) > 0 /\ s[Len(s)] = c

StartsWith(s, prefix) == OccursAt(prefix, s, 0)

RECURSIVE LStripSet(_, _)
LStripSet(s, chars) ==
    IF s # <<>> /\ Head(s) \in chars THEN LStripSet(Tail(s), chars) ELSE s

RECURSIVE RStripSet(_, _)
RStripSet(s, chars) ==
    IF s # <<>> /\ s[Len(s)] \in chars
    THEN RStripSet(SubSeq(s, 1, Len(s) - 1), chars)
    ELSE s

\* s.lstrip()
LStrip(s) == LStripSet(s, Whitespace)

\* s.strip('\n')
StripNewlines(s) == RStripSet(LStripSet(s, {"\n"}), {"\n"})

\* code.splitlines(): the text cut at every "\n", a final "\n" ending the
\* last line and starting no new one
splitlines(s) ==
    LET breaks == {i \in 1..Len(s) : s[i] = "\n"}
        \* the k-th line break, the end of the text behind the last one
        break(k) ==
            IF k = 0 THEN 0
            ELSE IF k > Cardinality(breaks) THEN Len(s) + 1
            ELSE CHOOSE i \in breaks :
                    Cardinality({j \in breaks : j <= i}) = k
        count == IF s = <<>> \/ s[Len(s)] = "\n"
                 THEN Cardinality(breaks)
                 ELSE Cardinality(breaks) + 1
    IN  [k \in 1..count |-> SubSeq(s, break(k - 1) + 1, break(k) - 1)]

----------------------------------------------------------------------------
(* The rule predicates on a line.                                          *)

MaxLineLength == 79

indentation_check(l) == (Len(l) - Len(LStrip(l))) % 4 # 0

semicolon_check(l) ==
    IF EndsWith(l, ";") /\ ~In("#", l) THEN TRUE
    ELSE IF In(";", l) /\ In("#", l) /\ Index(l, ";") < Index(l, "#") THEN TRUE
    ELSE FALSE

preceding_spaces_check(l) ==
    IF In("#", l)
    THEN LET i == Index(l, "#")
         IN  i > 2 /\ Slice(l, i - 2, i) # <<" ", " ">>
    ELSE FALSE

Todo == <<"t", "o", "d", "o">>

todo_check(l) ==
    LET low == Lower(l)
    IN  /\ Contains(Todo, low)
        /\ In("#", low)
        /\ Find(low, Todo) > Index(low, "#")

ClassKw == <<"c", "l", "a", "s", "s", " ">>
DefKw == <<"d", "e", "f", " ">>

\* re.match('(class|def) ', l) and not re.match(r'(class|def) \S', l)
spaces_after_construction_name(l) ==
    LET s == LStrip(l)
        NonSpaceAfter(kw) ==
            /\ StartsWith(s, kw)
            /\ Len(s) > Len(kw)
            /\ s[Len(kw) + 1] \notin Whitespace
    IN  /\ StartsWith(s, ClassKw) \/ StartsWith(s, DefKw)
        /\ ~(NonSpaceAfter(ClassKw) \/ NonSpaceAfter(DefKw))

----------------------------------------------------------------------------
(* The rule predicates on a name.                                          *)

\* not re.match(r'[A-Z]\w+', string): a match is a prefix of the string
camel_case_check(string) ==
    ~(\E n \in 2..Len(string) :
        /\ string[1] \in UpperCase
        /\ \A i \in 2..n : string[i] \in WordChars)

\* not re.fullmatch(r'_*[a-z0-9_]+', string)
snake_case_check(string) ==
    ~(\E k \in 0..Len(string) :
        /\ \A i \in 1..k : string[i] = "_"
        /\ k < Len(string)
        /\ \A i \in (k + 1)..Len(string) :
              string[i] \in LowerCase \cup Digits \cup {"_"})

----------------------------------------------------------------------------
(* Violations: the class Error.                                            *)

\* Error(path, line_num, error_code, *args)
Error(path, line_num, error_code, args) ==
    [path |-> path, line_num |-> line_num, error_code |-> error_code,
     additional_info |-> args]

\* Error.error_codes: the text of each code; for S008-S011 the two halves
\* of a template around a name
error_codes ==
    [S001 |-> <<"Too long">>,
     S002 |-> <<"Indentation is not a multiple of four">>,
     S003 |-> <<"Unnecessary semicolon">>,
     S004 |-> <<"At least two spaces required before inline comments">>,
     S005 |-> <<"TODO found">>,
     S006 |-> <<"More than two blank lines preceding a code line">>,
     S007 |-> <<"Too many spaces after construction_name(def or class)">>,
     S008 |-> <<"Class name '", "' should be written in CamelCase">>,
     S009 |-> <<"Function name '", "' should be written in snake_case">>,
     S010 |-> <<"Argument name '", "' should be written in snake_case">>,
     S011 |-> <<"Variable '", "' should be written in snake_case">>,
     S012 |-> <<"The default argument value is mutable">>]

\* the codes in the order of Python's string comparison
CodeOrder == <<"S001", "S002", "S003", "S004", "S005", "S006", "S007",
               "S008", "S009", "S010", "S011", "S012">>

CodeRank(c) == CHOOSE i \in 1..Len(CodeOrder) : CodeOrder[i] = c

\* Error.message: the codes whose text is a template around the name
NamedCodes == {"S008", "S009", "S010", "S011"}

\* Error.message: the printed line, its text a sequence of the catalogue's
\* pieces and the characters of the name
message(error) ==
    [path |-> error.path, line_num |-> error.line_num,
     error_code |-> error.error_code,
     message |->
        IF error.error_code \in NamedCodes
        THEN <<error_codes[error.error_code][1]>> \o
             error.additional_info[1] \o
             <<error_codes[error.error_code][2]>>
        ELSE error_codes[error.error_code]]

----------------------------------------------------------------------------
(* The line scanner.                                                       *)

If(cond, errs) == IF cond THEN errs ELSE <<>>

\* the same test from the fifth line on only
three_blank_lines_before_late(ls, line_num) ==
    line_num > 3 /\ Slice(ls, line_num - 3, line_num) = <<<<>>, <<>>, <<>>>>

\* lines[line_num-3:line_num] == [''] * 3, for line_num > 2
three_blank_lines_before(ls, line_num) ==
    line_num > 2 /\ Slice(ls, line_num - 3, line_num) = <<<<>>, <<>>, <<>>>>

\* one turn of the loop of file_as_strings_analyzer; line_num is 0-based
line_errors(file_path, ls, line_num) ==
    LET l == StripNewlines(ls[line_num + 1])
        E(c) == <<Error(file_path, line_num + 1, c, <<>>)>>
    IN  If(Len(RStripSet(l, {"\n"})) > MaxLineLength, E("S001")) \o
        If(indentation_check(l), E("S002")) \o
        If(semicolon_check(l), E("S003")) \o
        If(preceding_spaces_check(l), E("S004")) \o
        If(todo_check(l), E("S005")) \o
        If(three_blank_lines_before(ls, line_num), E("S006")) \o
        If(spaces_after_construction_name(l), E("S007"))

RECURSIVE scan_lines(_, _, _)
scan_lines(file_path, ls, line_num) ==
    IF line_num >= Len(ls) THEN <<>>
    ELSE line_errors(file_path, ls, line_num) \o
         scan_lines(file_path, ls, line_num + 1)

file_as_strings_analyzer(file_path, ls) == scan_lines(file_path, ls, 0)

----------------------------------------------------------------------------
(* Syntax trees.  A tree is the sequence of its nodes below the Module     *)
(* node, which is node 0; a node names its parent, and the children of a   *)
(* node follow each other in the order of their numbers.  Only statement   *)
(* nodes are kept: the expression nodes ast.walk also yields are of none   *)
(* of the kinds the scanner looks for and have no statement below them.    *)

NodeKinds == {"ClassDef", "FunctionDef", "Assign", "Other"}
\* kinds of a default value; the first three are the mutable literals
DefaultKinds == {"List", "Set", "Dict", "Tuple", "Constant"}
\* kinds of an assignment target
TargetKinds == {"Name", "Attribute", "Subscript", "Tuple"}

\* ast.iter_child_nodes, for node number n of tree t
iter_child_nodes(t, n) ==
    SelectSeq([i \in 1..Len(t) |-> i], LAMBDA i : t[i].parent = n)

\* ast.walk: todo = deque([node]); popleft, extend by the children, yield
RECURSIVE walk_from(_, _)
walk_from(t, todo) ==
    IF todo = <<>> THEN <<>>
    ELSE <<Head(todo)>> \o
         walk_from(t, Tail(todo) \o iter_child_nodes(t, Head(todo)))

\* a walk that stops at the statements of the module's body
walk_top_level(t) == <<0>> \o iter_child_nodes(t, 0)

walk(t) == walk_from(t, <<0>>)

----------------------------------------------------------------------------
(* The tree scanner.                                                       *)

\* the same loop without its break
RECURSIVE argument_errors_no_break(_, _, _)
argument_errors_no_break(file_path, node, args) ==
    IF args = <<>> THEN <<>>
    ELSE If(snake_case_check(Head(args)),
            <<Error(file_path, node.lineno, "S010", <<node.name>>)>>) \o
         argument_errors_no_break(file_path, node, Tail(args))

\* the loop over args.args, left at the first name that fails
RECURSIVE argument_errors(_, _, _)
argument_errors(file_path, node, args) ==
    IF args = <<>> THEN <<>>
    ELSE IF snake_case_check(Head(args))
    THEN <<Error(file_path, node.lineno, "S010", <<node.name>>)>>
    ELSE argument_errors(file_path, node, Tail(args))

is_mutable_literal(default_arg) ==
    default_arg = "List" \/ default_arg = "Set" \/ default_arg = "Dict"

\* the loop over args.defaults
RECURSIVE default_errors(_, _, _)
default_errors(file_path, node, defaults) ==
    IF defaults = <<>> THEN <<>>
    ELSE If(is_mutable_literal(Head(defaults)),
            <<Error(file_path, node.lineno, "S012", <<>>)>>) \o
         default_errors(file_path, node, Tail(defaults))

\* the body of the loop of file_as_ast_analyzer for one node
node_errors(file_path, node) ==
    If(node.kind = "ClassDef" /\ camel_case_check(node.name),
       <<Error(file_path, node.lineno, "S008", <<node.name>>)>>) \o
    If(node.kind = "FunctionDef",
       If(snake_case_check(node.name),
          <<Error(file_path, node.lineno, "S009", <<node.name>>)>>) \o
       argument_errors(file_path, node, node.args) \o
       default_errors(file_path, node, node.defaults)) \o
    If(node.kind = "Assign" /\ node.targets[1].kind = "Name"
            /\ snake_case_check(node.targets[1].id),
       <<Error(file_path, node.lineno, "S011", <<node.targets[1].id>>)>>)

RECURSIVE scan_nodes(_, _, _)
scan_nodes(file_path, t, order) ==
    IF order = <<>> THEN <<>>
    ELSE (IF Head(order) = 0 THEN <<>>
          ELSE node_errors(file_path, t[Head(order)])) \o
         scan_nodes(file_path, t, Tail(order))

file_as_ast_analyzer(file_path, t) == scan_nodes(file_path, t, walk(t))

----------------------------------------------------------------------------
(* Aggregation: static_code_analyzer.                                      *)

\* a key of the line number alone
key_less_line_only(a, b) == a.line_num < b.line_num

\* (a.line_num, a.error_code) < (b.line_num, b.error_code), as tuples
key_less(a, b) ==
    \/ a.line_num < b.line_num
    \/ a.line_num = b.line_num
         /\ CodeRank(a.error_code) < CodeRank(b.error_code)

\* e put in front of the elements that are not smaller, and dropped when
\* the list holds an equal violation already
RECURSIVE insert_sorted_set(_, _)
insert_sorted_set(e, acc) ==
    IF acc = <<>> THEN <<e>>
    ELSE IF e = Head(acc) THEN acc
    ELSE IF ~key_less(Head(acc), e) THEN <<e>> \o acc
    ELSE <<Head(acc)>> \o insert_sorted_set(e, Tail(acc))

\* e put into the sorted list acc behind every element that is not greater
RECURSIVE insert_sorted(_, _)
insert_sorted(e, acc) ==
    IF acc = <<>> THEN <<e>>
    ELSE IF key_less(e, Head(acc)) THEN <<e>> \o acc
    ELSE <<Head(acc)>> \o insert_sorted(e, Tail(acc))

\* sorted(errors, key=...): a stable sort, here by insertion from the left
RECURSIVE sorted_into(_, _)
sorted_into(errs, acc) ==
    IF errs = <<>> THEN acc
    ELSE sorted_into(Tail(errs), insert_sorted(Head(errs), acc))

sorted(errs) == sorted_into(errs, <<>>)

\* A file: its path, whether open() succeeds, the text read() gives and
\* what ast.parse does with that text: it raises SyntaxError, or returns
\* a tree.
SyntaxError == "SyntaxError"
OSError == "OSError"

\* static_code_analyzer: the exception raised, or the sorted list; with the
\* lists of the two scanners as they were before the sort
static_code_analyzer(f) ==
    IF ~f.readable
    THEN [raised |-> OSError, str |-> <<>>, ast |-> <<>>, value |-> <<>>]
    ELSE LET ls == splitlines(f.code)
             s == file_as_strings_analyzer(f.path, ls)
         IN  IF f.parsed.raised = SyntaxError
             THEN [raised |-> SyntaxError, str |-> s, ast |-> <<>>,
                   value |-> <<>>]
             ELSE LET a == file_as_ast_analyzer(f.path, f.parsed.tree)
                  IN  [raised |-> None, str |-> s, ast |-> a,
                       value |-> sorted(s \o a)]

----------------------------------------------------------------------------
(* Inputs: names and lines of text.                                        *)

n_k == <<"k">>
n_Fn == <<"F", "n">>
n_f == <<"f">>
n_g == <<"g">>
n_Ab == <<"A", "b">>
n_C == <<"C">>
n_lst == <<"l", "s", "t">>
n_x == <<"x">>
n_Y == <<"Y">>
n_a == <<"a">>
n_B == <<"B">>
n_X == <<"X">>
n_self == <<"s", "e", "l", "f">>
n_l == <<"l">>

\* x = 1;
t_semi == <<"x", " ", "=", " ", "1", ";">>
\* def Fn(Ab=[], C={1}):
t_def == <<"d", "e", "f", " ", "F", "n", "(", "A", "b", "=", "[", "]", ",",
           " ", "C", "=", "{", "1", "}", ")", ":">>
\*     X = 1; Y = 2  #todo
t_body == <<" ", " ", " ", " ", "X", " ", "=", " ", "1", ";", " ", "Y",
            " ", "=", " ", "2", " ", " ", "#", "t", "o", "d", "o">>
\* class k:
t_class == <<"c", "l", "a", "s", "s", " ", "k", ":">>
\*   def g(self, l=[]): X = 1
t_method == <<" ", " ", "d", "e", "f", " ", "g", "(", "s", "e", "l", "f",
              ",", " ", "l", "=", "[", "]", ")", ":", " ", "X", " ", "=",
              " ", "1">>
\* a = B = 1 # TODO
t_chain == <<"a", " ", "=", " ", "B", " ", "=", " ", "1", " ", "#", " ",
             "T", "O", "D", "O">>
\* x = (
t_open == <<"x", " ", "=", " ", "(">>

----------------------------------------------------------------------------
(* Inputs: the lines given to semicolon_check and todo_check, each made of *)
(* at most MaxSegs segments.                                               *)

Segments == {<<"t", "o", "d", "o">>, <<"T", "o", "D", "O">>, <<"#">>,
             <<";">>, <<" ">>, <<"x">>}

RECURSIVE Concat(_)
Concat(seqs) == IF seqs = <<>> THEN <<>> ELSE Head(seqs) \o Concat(Tail(seqs))

SeqsUpTo(S, n) == UNION {[1..k -> S] : k \in 0..n}

SegmentLines(n) == {Concat(segs) : segs \in SeqsUpTo(Segments, n)}

----------------------------------------------------------------------------
(* Inputs: the line sequences given to file_as_strings_analyzer.           *)

LineChoices == {<<>>, <<"x">>, <<" ">>}

LineSequences(n) == SeqsUpTo(LineChoices, n)

----------------------------------------------------------------------------
(* Inputs: the syntax trees given to file_as_ast_analyzer.                 *)

Node(kind, name, args, defaults, targets, parent, lineno) ==
    [kind |-> kind, name |-> name, args |-> args, defaults |-> defaults,
     targets |-> targets, parent |-> parent, lineno |-> lineno]

Target(kind, id) == [kind |-> kind, id |-> id]

ClassNode(name, parent, lineno) ==
    Node("ClassDef", name, <<>>, <<>>, <<>>, parent, lineno)
FunctionNode(name, args, defaults, parent, lineno) ==
    Node("FunctionDef", name, args, defaults, <<>>, parent, lineno)
AssignNode(targets, parent, lineno) ==
    Node("Assign", <<>>, <<>>, <<>>, targets, parent, lineno)
OtherNode(parent, lineno) ==
    Node("Other", <<>>, <<>>, <<>>, <<>>, parent, lineno)

\* The statements a tree is made of, before they are given a place:
\*   class k: ...                 def Fn(Ab={}, C={1}): ...
\*   def f(lst=[]): ...           def g(x=(), Y=1): ...
\*   a = B = 1                    X = 1
\*   self.x = B = 1               X, Y = 1, 2
\*   a statement of another kind (if, pass, ...)
NodeLabels ==
    {ClassNode(n_k, 0, 0),
     FunctionNode(n_Fn, <<n_Ab, n_C>>, <<"Dict", "Set">>, 0, 0),
     FunctionNode(n_f, <<n_lst>>, <<"List">>, 0, 0),
     FunctionNode(n_g, <<n_x, n_Y>>, <<"Tuple", "Constant">>, 0, 0),
     AssignNode(<<Target("Name", n_a), Target("Name", n_B)>>, 0, 0),
     AssignNode(<<Target("Name", n_X)>>, 0, 0),
     AssignNode(<<Target("Attribute", n_x), Target("Name", n_B)>>, 0, 0),
     AssignNode(<<Target("Tuple", <<>>)>>, 0, 0),
     OtherNode(0, 0)}

\* a statement that has a body
HasBody(node) == node.kind \in {"ClassDef", "FunctionDef", "Other"}

\* the nodes in the order of the source text
RECURSIVE preorder_from(_, _)
preorder_from(t, stack) ==
    IF stack = <<>> THEN <<>>
    ELSE <<Head(stack)>> \o
         preorder_from(t, iter_child_nodes(t, Head(stack)) \o Tail(stack))

\* one statement on each line: the line of a node is its place in the text
PlaceTree(labels, parents) ==
    LET t == [i \in 1..Len(labels) |-> [labels[i] EXCEPT !.parent = parents[i]]]
        order == preorder_from(t, <<0>>)
        place(i) == CHOOSE r \in 1..Len(order) : order[r] = i
    IN  [i \in 1..Len(t) |-> [t[i] EXCEPT !.lineno = place(i) - 1]]

\* the parents of the first k statements: a statement is in the body of the
\* module or of an earlier statement that has a body
RECURSIVE ParentChoicesUpTo(_, _)
ParentChoicesUpTo(labels, k) ==
    IF k = 0 THEN {<<>>}
    ELSE {Append(p, j) :
            p \in ParentChoicesUpTo(labels, k - 1),
            j \in {0} \cup {i \in 1..(k - 1) : HasBody(labels[i])}}

ParentChoices(labels) == ParentChoicesUpTo(labels, Len(labels))

----------------------------------------------------------------------------
(* Inputs: files.  The text of a file is a sequence of blocks; a block is  *)
(* its lines with the nodes ast.parse makes of them, the parent of a node  *)
(* (0: the Module) and its line counted within the block.                  *)

Block(text, nodes, valid) == [text |-> text, nodes |-> nodes, valid |-> valid]

\* x = 1;
b_semi == Block(<<t_semi>>, <<AssignNode(<<Target("Name", n_x)>>, 0, 1)>>, TRUE)
\* an empty line
b_blank == Block(<<<<>>>>, <<>>, TRUE)
\* def Fn(Ab=[], C={1}):
\*     X = 1; Y = 2  #todo
b_def ==
    Block(<<t_def, t_body>>,
          <<FunctionNode(n_Fn, <<n_Ab, n_C>>, <<"List", "Set">>, 0, 1),
            AssignNode(<<Target("Name", n_X)>>, 1, 2),
            AssignNode(<<Target("Name", n_Y)>>, 1, 2)>>,
          TRUE)
\* class k:
\*   def g(self, l=[]): X = 1
b_class ==
    Block(<<t_class, t_method>>,
          <<ClassNode(n_k, 0, 1),
            FunctionNode(n_g, <<n_self, n_l>>, <<"List">>, 1, 2),
            AssignNode(<<Target("Name", n_X)>>, 2, 2)>>,
          TRUE)
\* a = B = 1 # TODO
b_chain ==
    Block(<<t_chain>>,
          <<AssignNode(<<Target("Name", n_a), Target("Name", n_B)>>, 0, 1)>>,
          TRUE)
\* x = (       which does not parse
b_open == Block(<<t_open>>, <<>>, FALSE)

Blocks == {b_semi, b_blank, b_def, b_class, b_chain, b_open}

\* the text of the blocks, every line ended by a newline
RECURSIVE text_of(_)
text_of(blocks) ==
    IF blocks = <<>> THEN <<>>
    ELSE Concat([i \in 1..Len(Head(blocks).text) |->
                    Append(Head(blocks).text[i], "\n")]) \o
         text_of(Tail(blocks))

\* the nodes of the blocks, moved to their place in the file
RECURSIVE nodes_of(_, _, _)
nodes_of(blocks, line_offset, node_offset) ==
    IF blocks = <<>> THEN <<>>
    ELSE LET b == Head(blocks)
             moved(nd) ==
                 [nd EXCEPT !.lineno = @ + line_offset,
                            !.parent = IF @ = 0 THEN 0 ELSE @ + node_offset]
         IN  [i \in 1..Len(b.nodes) |-> moved(b.nodes[i])] \o
             nodes_of(Tail(blocks), line_offset + Len(b.text),
                      node_offset + Len(b.nodes))

\* what ast.parse gives for the text of the blocks
parse_of(blocks) ==
    IF \E i \in 1..Len(blocks) : ~blocks[i].valid
    THEN [raised |-> SyntaxError, tree |-> <<>>]
    ELSE [raised |-> None, tree |-> nodes_of(blocks, 0, 0)]

File(path, readable, blocks) ==
    [path |-> path, readable |-> readable,
     code |-> text_of(blocks), parsed |-> parse_of(blocks)]

BlockSequences(n) == SeqsUpTo(Blocks, n)

\* the files of a run of main: what each path holds
FileChoices ==
    {[readable |-> TRUE, blocks |-> <<b_semi>>],
     [readable |-> TRUE, blocks |-> <<b_def, b_class>>],
     [readable |-> TRUE, blocks |-> <<>>],
     [readable |-> TRUE, blocks |-> <<b_chain, b_open>>],
     [readable |-> FALSE, blocks |-> <<b_semi>>]}

Paths == <<"f1.py", "f2.py", "f3.py", "f4.py">>

FileLists(n) ==
    {[i \in 1..Len(c) |-> File(Paths[i], c[i].readable, c[i].blocks)] :
        c \in SeqsUpTo(FileChoices, n)}

----------------------------------------------------------------------------
(* The predicates semicolon_check and todo_check applied to a line.        *)

InitPred ==
    /\ pc = "line_given"
    /\ line \in SegmentLines(MaxSegs)
    /\ flags = None /\ lines = None /\ tree = None /\ file = None
    /\ strErrors = None /\ astErrors = None /\ result = None
    /\ files = None /\ next_file = None /\ errors = None /\ printed = None

CheckLine ==
    /\ pc = "line_given"
    /\ flags' = [semicolon |-> semicolon_check(line), todo |-> todo_check(line)]
    /\ pc' = "line_checked"
    /\ UNCHANGED <<line, lines, tree, file, strErrors, astErrors, result,
                   files, next_file, errors, printed>>

SpecPred == InitPred /\ [][CheckLine]_vars

----------------------------------------------------------------------------
(* The line scanner applied to a line sequence.                            *)

InitLines ==
    /\ pc = "lines_given"
    /\ lines \in LineSequences(MaxLines)
    /\ line = None /\ flags = None /\ tree = None /\ file = None
    /\ strErrors = None /\ astErrors = None /\ result = None
    /\ files = None /\ next_file = None /\ errors = None /\ printed = None

ScanLines ==
    /\ pc = "lines_given"
    /\ strErrors' = file_as_strings_analyzer(Paths[1], lines)
    /\ pc' = "lines_scanned"
    /\ UNCHANGED <<line, flags, lines, tree, file, astErrors, result,
                   files, next_file, errors, printed>>

SpecLines == InitLines /\ [][ScanLines]_vars

----------------------------------------------------------------------------
(* The tree scanner applied to a syntax tree.                              *)

InitTree ==
    /\ pc = "tree_given"
    /\ \E labels \in SeqsUpTo(NodeLabels, MaxNodes) :
         \E parents \in ParentChoices(labels) :
            tree = PlaceTree(labels, parents)
    /\ line = None /\ flags = None /\ lines = None /\ file = None
    /\ strErrors = None /\ astErrors = None /\ result = None
    /\ files = None /\ next_file = None /\ errors = None /\ printed = None

ScanTree ==
    /\ pc = "tree_given"
    /\ astErrors' = file_as_ast_analyzer(Paths[1], tree)
    /\ pc' = "tree_scanned"
    /\ UNCHANGED <<line, flags, lines, tree, file, strErrors, result,
                   files, next_file, errors, printed>>

SpecTree == InitTree /\ [][ScanTree]_vars

----------------------------------------------------------------------------
(* static_code_analyzer applied to a file.                                 *)

InitFile ==
    /\ pc = "file_given"
    /\ \E blocks \in BlockSequences(MaxBlocks) : file = File(Paths[1], TRUE, blocks)
    /\ line = None /\ flags = None /\ lines = None /\ tree = None
    /\ strErrors = None /\ astErrors = None /\ result = None
    /\ files = None /\ next_file = None /\ errors = None /\ printed = None

\* the call returns
AnalyzeFile ==
    /\ pc = "file_given"
    /\ LET r == static_code_analyzer(file)
       IN  /\ r.raised = None
           /\ strErrors' = r.str
           /\ astErrors' = r.ast
           /\ result' = r.value
    /\ pc' = "file_analyzed"
    /\ UNCHANGED <<line, flags, lines, tree, file, files, next_file, errors,
                   printed>>

\* the call raises
AnalyzeFileRaises ==
    /\ pc = "file_given"
    /\ static_code_analyzer(file).raised # None
    /\ pc' = "file_raised"
    /\ UNCHANGED <<line, flags, lines, tree, file, strErrors, astErrors,
                   result, files, next_file, errors, printed>>

NextFile == AnalyzeFile \/ AnalyzeFileRaises

SpecFile == InitFile /\ [][NextFile]_vars

----------------------------------------------------------------------------
(* main: the loop over the files, then the loop that prints.               *)

Init ==
    /\ pc = "analyze"
    /\ files \in FileLists(MaxFiles)
    /\ next_file = 1
    /\ errors = <<>>
    /\ printed = <<>>
    /\ line = None /\ flags = None /\ lines = None /\ tree = None
    /\ file = None
    /\ strErrors = None /\ astErrors = None /\ result = None

\* one turn of the first loop, printing what the file gave at once
AnalyzeNextAndPrint ==
    /\ pc = "analyze"
    /\ next_file <= Len(files)
    /\ LET r == static_code_analyzer(files[next_file])
       IN  /\ r.raised = None
           /\ errors' = errors \o r.value
           /\ printed' = printed \o
                 [i \in 1..Len(r.value) |-> message(r.value[i])]
    /\ next_file' = next_file + 1
    /\ UNCHANGED <<pc, line, flags, lines, tree, file, strErrors, astErrors,
                   result, files>>

\* one turn of the first loop: the file is analysed, its list appended
AnalyzeNext ==
    /\ pc = "analyze"
    /\ next_file <= Len(files)
    /\ LET r == static_code_analyzer(files[next_file])
       IN  /\ r.raised = None
           /\ errors' = errors \o r.value
    /\ next_file' = next_file + 1
    /\ UNCHANGED <<pc, line, flags, lines, tree, file, strErrors, astErrors,
                   result, files, printed>>

\* static_code_analyzer raises: nothing catches it and the run ends
AnalyzeRaises ==
    /\ pc = "analyze"
    /\ next_file <= Len(files)
    /\ static_code_analyzer(files[next_file]).raised # None
    /\ pc' = "aborted"
    /\ UNCHANGED <<line, flags, lines, tree, file, strErrors, astErrors,
                   result, files, next_file, errors, printed>>

\* the first loop is over
StartPrinting ==
    /\ pc = "analyze"
    /\ next_file > Len(files)
    /\ pc' = "print"
    /\ UNCHANGED <<line, flags, lines, tree, file, strErrors, astErrors,
                   result, files, next_file, errors, printed>>

\* one turn of the second loop
PrintNext ==
    /\ pc = "print"
    /\ Len(printed) < Len(errors)
    /\ printed' = Append(printed, message(errors[Len(printed) + 1]))
    /\ UNCHANGED <<pc, line, flags, lines, tree, file, strErrors, astErrors,
                   result, files, next_file, errors>>

\* the second loop is over: main returns
Finish ==
    /\ pc = "print"
    /\ Len(printed) = Len(errors)
    /\ pc' = "done"
    /\ UNCHANGED <<line, flags, lines, tree, file, strErrors, astErrors,
                   result, files, next_file, errors, printed>>

Next ==
    \/ AnalyzeNext
    \/ AnalyzeRaises
    \/ StartPrinting
    \/ PrintNext
    \/ Finish

Spec == Init /\ [][Next]_vars

----------------------------------------------------------------------------
(* What is checked of the aggregation (SpecFile).                          *)

\* the two lists as static_code_analyzer joins them before the sort
Joined == strErrors \o astErrors

SameKey(a, b) == a.line_num = b.line_num /\ a.error_code = b.error_code

\* how often e is in seq
Occurrences(seq, e) == Cardinality({i \in 1..Len(seq) : seq[i] = e})

\* how many violations of code c are in errs
CountCode(errs, c) ==
    Cardinality({i \in 1..Len(errs) : errs[i].error_code = c})

\* seq ascends by line number, and by code where the lines are equal
IsSorted(seq) ==
    \A i \in 1..(Len(seq) - 1) :
        \/ seq[i].line_num < seq[i + 1].line_num
        \/ /\ seq[i].line_num = seq[i + 1].line_num
           /\ CodeRank(seq[i].error_code) <= CodeRank(seq[i + 1].error_code)

\* C1: the list static_code_analyzer returns for a file that parses is
\* sorted ascending by (line number, rule code), whatever the order in which
\* the two scanners produced the violations.
C1_ResultSorted == pc = "file_analyzed" => IsSorted(result)

\* C1 witness: both scanners gave violations, the joined list was not in
\* order, and the returned list holds two codes of one line.
C1_Witness ==
    /\ pc = "file_analyzed"
    /\ strErrors # <<>> /\ astErrors # <<>>
    /\ ~IsSorted(Joined)
    /\ \E i \in 1..(Len(result) - 1) :
          /\ result[i].line_num = result[i + 1].line_num
          /\ result[i].error_code # result[i + 1].error_code

\* C2: the returned list is a permutation of the joined lists of the two
\* scanners (nothing dropped, nothing merged, equal violations all kept),
\* and the violations of one (line number, rule code) keep their order.
C2_PermutationStable ==
    pc = "file_analyzed" =>
        /\ Len(result) = Len(Joined)
        /\ \A i \in 1..Len(Joined) :
              /\ Occurrences(result, Joined[i]) = Occurrences(Joined, Joined[i])
              /\ SelectSeq(result, LAMBDA e : SameKey(e, Joined[i]))
                    = SelectSeq(Joined, LAMBDA e : SameKey(e, Joined[i]))

\* C2 witness: the sort moved something, the result holds one violation
\* twice and two different violations of one line and code.
C2_Witness ==
    /\ pc = "file_analyzed"
    /\ result # Joined
    /\ \E i, j \in 1..Len(result) : i < j /\ result[i] = result[j]
    /\ \E i, j \in 1..Len(result) :
          i < j /\ SameKey(result[i], result[j]) /\ result[i] # result[j]

\* the identifier a violation of a naming code is about, read off the tree
IsOffender(e, t) ==
    \E i \in 1..Len(t) :
        /\ t[i].lineno = e.line_num
        /\ \/ e.error_code = "S008" /\ t[i].kind = "ClassDef"
                /\ e.additional_info = <<t[i].name>>
           \/ e.error_code = "S009" /\ t[i].kind = "FunctionDef"
                /\ e.additional_info = <<t[i].name>>
           \/ e.error_code = "S010" /\ t[i].kind = "FunctionDef"
                /\ \E a \in 1..Len(t[i].args) :
                      /\ snake_case_check(t[i].args[a])
                      /\ e.additional_info = <<t[i].args[a]>>
           \/ e.error_code = "S011" /\ t[i].kind = "Assign"
                /\ \E k \in 1..Len(t[i].targets) :
                      /\ t[i].targets[k].kind = "Name"
                      /\ e.additional_info = <<t[i].targets[k].id>>

\* C7: every violation of either scanner has a line number >= 1 and a
\* subject name exactly when its code is one of S008-S011, and then the
\* subject is the offending identifier: the class, the function, the
\* offending argument, the assigned variable.
C7_SubjectIsOffender ==
    pc = "file_analyzed" =>
        \A i \in 1..Len(Joined) :
            LET e == Joined[i]
            IN  /\ e.line_num >= 1
                /\ (e.additional_info # <<>>) <=>
                      (e.error_code \in {"S008", "S009", "S010", "S011"})
                /\ e.additional_info # <<>> => IsOffender(e, file.parsed.tree)

----------------------------------------------------------------------------
(* What is checked of the line scanner (SpecLines).                        *)

Blank(ls, i) == ls[i] = <<>>

\* lines i, i+1, i+2 are a run of exactly three empty lines and line i+3,
\* not empty, follows it
RunOfThreeAt(ls, i) ==
    /\ i + 3 <= Len(ls)
    /\ Blank(ls, i) /\ Blank(ls, i + 1) /\ Blank(ls, i + 2)
    /\ ~Blank(ls, i + 3)
    /\ i > 1 => ~Blank(ls, i - 1)

\* no three empty lines follow each other anywhere else
NoOtherRun(ls, i) ==
    \A j \in 1..(Len(ls) - 2) :
        Blank(ls, j) /\ Blank(ls, j + 1) /\ Blank(ls, j + 2) => j = i

\* C3: a line sequence with one run of exactly three empty lines followed
\* by a non-empty line, and no other run of three or more, gets exactly one
\* S006, at the number of that non-empty line.
C3_OneExcessBlankLines ==
    pc = "lines_scanned" =>
        \A i \in 1..Len(lines) :
            RunOfThreeAt(lines, i) /\ NoOtherRun(lines, i) =>
                /\ CountCode(strErrors, "S006") = 1
                /\ \E k \in 1..Len(strErrors) :
                      /\ strErrors[k].error_code = "S006"
                      /\ strErrors[k].line_num = i + 3

\* C3 witness: such a run at the very start of the sequence, scanned.
C3_Witness ==
    /\ pc = "lines_scanned"
    /\ RunOfThreeAt(lines, 1) /\ NoOtherRun(lines, 1)
    /\ Len(lines) > 4
    /\ CountCode(strErrors, "S006") = 1

----------------------------------------------------------------------------
(* What is checked of the two predicates (SpecPred).                       *)

\* the text before the first '#', or the whole line
CodePortion(l) == IF In("#", l) THEN Slice(l, 0, Index(l, "#")) ELSE l

\* C4: semicolon_check is true exactly when the code portion of the line
\* ends with ';'; a ';' inside the code portion does not trigger the rule.
C4_SemicolonIffCodeEndsWith ==
    pc = "line_checked" =>
        (flags.semicolon <=> EndsWith(CodePortion(line), ";"))

\* C5: todo_check is true exactly when the lower-cased line has an
\* occurrence of 'todo' behind its first '#'; a 'todo' before the '#' does
\* not suppress it.
C5_TodoIffInComment ==
    pc = "line_checked" =>
        (flags.todo <=>
            /\ In("#", line)
            /\ \E p \in 0..Len(line) :
                  /\ OccursAt(Todo, Lower(line), p)
                  /\ p > Index(Lower(line), "#"))

----------------------------------------------------------------------------
(* What is checked of the tree scanner (SpecTree).  Every statement of a   *)
(* tree of InitTree is on a line of its own, so the violations of a line   *)
(* are those of one node.                                                  *)

CountAt(errs, c, lineno) ==
    Cardinality({i \in 1..Len(errs) :
                    errs[i].error_code = c /\ errs[i].line_num = lineno})

Offending(args) == {a \in 1..Len(args) : snake_case_check(args[a])}

MutableDefaults(defaults) ==
    {d \in 1..Len(defaults) : defaults[d] \in {"List", "Set", "Dict"}}

C9_EveryNameTargetChecked ==
    pc = "tree_scanned" =>
        \A i \in 1..Len(tree) :
            tree[i].kind = "Assign" =>
                \A k \in 1..Len(tree[i].targets) :
                    LET target == tree[i].targets[k]
                    IN  (target.kind = "Name" /\ snake_case_check(target.id))
                        <=> \E n \in 1..Len(astErrors) :
                              /\ astErrors[n].error_code = "S011"
                              /\ astErrors[n].line_num = tree[i].lineno
                              /\ astErrors[n].additional_info = <<target.id>>

----------------------------------------------------------------------------
(* What is checked of main (Spec).                                         *)

Returns(f) == static_code_analyzer(f).raised = None

\* the lists of the files before position n, one behind the other
RECURSIVE ListsBefore(_, _)
ListsBefore(fs, n) ==
    IF n <= 1 THEN <<>>
    ELSE ListsBefore(fs, n - 1) \o static_code_analyzer(fs[n - 1]).value

Messages(errs) == [i \in 1..Len(errs) |-> message(errs[i])]

\* C10: the files are analysed one at a time in list order and the run is
\* all or nothing: when every file reads and parses, the violations of all
\* files are printed in file order, each file's block sorted; when fk is
\* the first that fails, the run ends at fk, no later file is analysed and
\* nothing is printed, not even for the files analysed before fk.
C10_AllOrNothing ==
    /\ next_file \in 1..(Len(files) + 1)
    /\ \A j \in 1..(next_file - 1) :
          Returns(files[j]) /\ IsSorted(static_code_analyzer(files[j]).value)
    /\ errors = ListsBefore(files, next_file)
    /\ pc = "aborted" => ~Returns(files[next_file]) /\ printed = <<>>
    /\ printed # <<>> => pc \in {"print", "done"}
    /\ pc \in {"print", "done"} =>
          /\ next_file = Len(files) + 1
          /\ printed = SubSeq(Messages(errors), 1, Len(printed))
    /\ pc = "done" => printed = Messages(ListsBefore(files, Len(files) + 1))

\* C10 witness: the second file fails after the first gave violations, and
\* nothing was printed.
C10_Witness ==
    /\ pc = "aborted"
    /\ next_file = 2
    /\ errors # <<>>
    /\ printed = <<>>

====
